---------------------------- MODULE Spec2Model ----------------------------
(***************************************************************************)
(* Model of re-mark-Wiseflow.py: extraction of multiple-choice tallies     *)
(* from a parsed Wiseflow report, the marking scheme, the per-student      *)
(* table and totals, and the batch loop of process_students.               *)
(*                                                                         *)
(* Numbers.  Every mark the default scheme produces is a multiple of 0.25, *)
(* so a mark is held as its number of quarters (1 is 4, 1.75 is 7,         *)
(* -0.25 is -1); sums of such values are exact in Python floats.  The      *)
(* percentage mark / max_marks * 100 is held as the exact rational, a      *)
(* reduced fraction <<numerator, denominator>>.                            *)
(*                                                                         *)
(* Text is a sequence of one-character strings; " " is the only            *)
(* whitespace character of the modelled alphabet.                          *)
(***************************************************************************)
EXTENDS Integers, Sequences, FiniteSets

\* Bounds of the single-document specifications (Spec, SpecTable).
MaxQuestions == 2
MaxNodes == 3
\* Bounds of the batch specification (SpecBatch).
MaxStudents == 2
BatchQuestions == 1
BatchNodes == 1

VARIABLES
    filenames,        \* process_students: the sources, in the given order
    output_filename,  \* process_students: "None" or the summary's file name
    i,                \* position of the list comprehension over filenames
    pc,               \* the statement the program is at
    soup,             \* the parsed document of the current source
    name,             \* mark_student: name
    qs,               \* mark_student: qs / marks_as_table: question_list
    mark_scheme,      \* marks_as_table: mark_scheme
    marks,            \* the table under construction / mark_student: marks
    calls,            \* the arguments mark_scheme was called with, in order
    written,          \* the write_CSV calls made so far: file name and rows
    all_marks,        \* process_students: the rows collected so far
    summary,          \* the summary file: whether written, and its rows
    error             \* the exception that ended the program, or "none"

vars == <<filenames, output_filename, i, pc, soup, name, qs, mark_scheme,
          marks, calls, written, all_marks, summary, error>>

---------------------------------------------------------------------------
(* Documents *)

\* The three marking-state classes resultsForOneQuestion looks for.
Labels == {"lrn_correct", "lrn_incorrect", "lrn_valid"}

\* class lists of an <li class="lrn-mcq-option ...">: any subset of the labels
OptionClasses == SUBSET Labels

\* the class lists the platform is assumed to emit: at most one label
SingleClasses == {c \in OptionClasses : Cardinality(c) <= 1}

\* text contents of the participant node's inner div
NameTexts == { <<"K">>, <<" ", "K", " ", " ", "T">> }

RECURSIVE SumSeq(_)
SumSeq(ns) == IF ns = <<>> THEN 0 ELSE Head(ns) + SumSeq(Tail(ns))

\* the option nodes `lis` of a document, cut into elements of the given sizes
cut(lis, sizes) ==
    [q \in 1..Len(sizes) |->
        LET before == SumSeq(SubSeq(sizes, 1, q - 1))
        IN SubSeq(lis, before + 1, before + sizes[q])]

\* The participant node as find_name queries it: whether a div matches the
\* ng-if pattern, whether that div has a div below it, and the inner div's text.
NameNodes ==
    { [participant |-> FALSE, inner_div |-> FALSE, text |-> <<>>],
      [participant |-> TRUE, inner_div |-> FALSE, text |-> <<>>] }
    \cup { [participant |-> TRUE, inner_div |-> TRUE, text |-> t] : t \in NameTexts }

\* A parsed document, as far as the program queries it: the participant node
\* and the <ul class="lrn-response-validate-wrapper"> elements in document
\* order, each the class lists of its <li class="lrn-mcq-option"> nodes.
Soup(node, uls) ==
    [participant |-> node.participant, inner_div |-> node.inner_div,
     text |-> node.text, questions |-> uls]

\* s' is some document of at most q question elements holding at most n
\* option nodes together, each with a class list of `classes`
SomeSoup(s, q, n, classes) ==
    \E m \in 0..n : \E lis \in [1..m -> classes] :
    \E k \in 0..q : \E sizes \in [1..k -> 0..m] :
    \E node \in NameNodes :
        /\ SumSeq(sizes) = m
        /\ s = Soup(node, cut(lis, sizes))

NoSoup == [participant |-> FALSE, inner_div |-> FALSE, text |-> <<>>, questions |-> <<>>]

---------------------------------------------------------------------------
(* Arithmetic helpers *)

RECURSIVE GCD(_, _)
GCD(a, b) == IF b = 0 THEN a ELSE GCD(b, a % b)

Abs(x) == IF x < 0 THEN -x ELSE x

\* the rational n/d (d > 0) as a reduced fraction
Frac(n, d) ==
    LET g == GCD(Abs(n), d) IN <<n \div g, d \div g>>

RECURSIVE SumCol(_, _)
SumCol(rows, col) ==
    IF rows = <<>> THEN 0 ELSE rows[1][col] + SumCol(Tail(rows), col)

---------------------------------------------------------------------------
(* find_name *)

\* text.split(): the maximal runs of non-whitespace characters
RECURSIVE split(_, _, _)
split(text, cur, acc) ==
    IF text = <<>>
    THEN IF cur = <<>> THEN acc ELSE Append(acc, cur)
    ELSE IF Head(text) = " "
         THEN split(Tail(text), <<>>, IF cur = <<>> THEN acc ELSE Append(acc, cur))
         ELSE split(Tail(text), Append(cur, Head(text)), acc)

\* ' '.join(words)
RECURSIVE join(_)
join(words) ==
    IF words = <<>> THEN <<>>
    ELSE IF Len(words) = 1 THEN words[1]
    ELSE words[1] \o <<" ">> \o join(Tail(words))

find_name(s) ==
    IF ~s.participant
    THEN [raise |-> "student name not found", ret |-> <<>>]
    ELSE IF ~s.inner_div
    THEN [raise |-> "AttributeError", ret |-> <<>>]
    ELSE [raise |-> "none", ret |-> join(split(s.text, <<>>, <<>>))]

---------------------------------------------------------------------------
(* resultsForOneQuestion, list_questions *)

RECURSIVE count_options(_, _)
count_options(lis, r) ==
    IF lis = <<>> THEN r
    ELSE LET c == Head(lis) IN
         count_options(Tail(lis),
            [r EXCEPT !.answers = @ + 1,
                      !.correct = IF "lrn_correct" \in c THEN @ + 1 ELSE @,
                      !.incorrect = IF "lrn_incorrect" \in c THEN @ + 1 ELSE @,
                      !.valid_not_selected = IF "lrn_valid" \in c THEN @ + 1 ELSE @])

\* the slip: self.answers+=1 indented under the first if
RECURSIVE count_options_nested(_, _)
count_options_nested(lis, r) ==
    IF lis = <<>> THEN r
    ELSE LET c == Head(lis) IN
         count_options_nested(Tail(lis),
            [r EXCEPT !.answers = IF "lrn_correct" \in c THEN @ + 1 ELSE @,
                      !.correct = IF "lrn_correct" \in c THEN @ + 1 ELSE @,
                      !.incorrect = IF "lrn_incorrect" \in c THEN @ + 1 ELSE @,
                      !.valid_not_selected = IF "lrn_valid" \in c THEN @ + 1 ELSE @])

resultsForOneQuestion_nested(ul) ==
    LET r == count_options_nested(ul, [correct |-> 0, incorrect |-> 0,
                                valid_not_selected |-> 0, answers |-> 0, valid |-> 0])
    IN [r EXCEPT !.valid = r.correct + r.valid_not_selected]

resultsForOneQuestion(ul) ==
    LET r == count_options(ul, [correct |-> 0, incorrect |-> 0,
                                valid_not_selected |-> 0, answers |-> 0, valid |-> 0])
    IN [r EXCEPT !.valid = r.correct + r.valid_not_selected]

list_questions_html(s) ==
    IF s.questions = <<>>
    THEN [raise |-> "No questions found", ret |-> <<>>]
    ELSE [raise |-> "none", ret |-> s.questions]

list_questions(s) ==
    LET res == list_questions_html(s) IN
    IF res.raise # "none" THEN res
    ELSE [raise |-> "none",
          ret |-> [q \in 1..Len(res.ret) |-> resultsForOneQuestion(res.ret[q])]]

---------------------------------------------------------------------------
(* marking scheme, table, totals *)

\* the slip: a single-answer question marked without looking at incorrect
mark_question_lenient(results) ==
    IF results.valid = 1
    THEN IF results.correct = 1 THEN 4 ELSE 0
    ELSE results.correct * 4 - results.incorrect * 1

\* the slip: the penalty added instead of subtracted
mark_question_bonus(results) ==
    IF results.valid = 1
    THEN IF results.correct = 1 /\ results.incorrect = 0 THEN 4 ELSE 0
    ELSE results.correct * 4 + results.incorrect * 1

\* in quarters
mark_question(results) ==
    IF results.valid = 1
    THEN IF results.correct = 1 /\ results.incorrect = 0 THEN 4 ELSE 0
    ELSE results.correct * 4 - results.incorrect * 1

\* The schemes marks_as_table is called with: the default, and a scheme of
\* the caller's about which nothing is known but its name and its argument.
Schemes == {"mark_question", "custom"}

call_scheme(scheme, r) ==
    IF scheme = "mark_question" THEN mark_question(r)
    ELSE [scheme |-> scheme, arg |-> r]

table_row(r, mark) == <<r.answers, r.valid, r.correct, r.incorrect, mark>>

csv_filename(n) ==
    [c \in 1..Len(n) |-> IF n[c] = " " THEN "_" ELSE n[c]] \o <<".", "c", "s", "v">>

\* the slip: row[0] (answers) summed for row[1] (valid answers)
total_mark_answers(rows) ==
    LET max_marks == SumCol(rows, 1)
        mark == SumCol(rows, 5)
    IN IF max_marks = 0
       THEN [raise |-> "ZeroDivisionError", ret |-> <<>>]
       ELSE [raise |-> "none", ret |-> <<max_marks, mark, Frac(mark * 100, 4 * max_marks)>>]

total_mark(rows) ==
    LET max_marks == SumCol(rows, 2)
        mark == SumCol(rows, 5)
    IN IF max_marks = 0
       THEN [raise |-> "ZeroDivisionError", ret |-> <<>>]
       ELSE [raise |-> "none", ret |-> <<max_marks, mark, Frac(mark * 100, 4 * max_marks)>>]

---------------------------------------------------------------------------
(* The program *)

Sources(n) == [j \in 1..n |-> j]

locals == <<soup, name, qs, mark_scheme, marks, calls>>

InitCommon ==
    /\ i = 1
    /\ soup = NoSoup
    /\ name = <<>>
    /\ qs = <<>>
    /\ mark_scheme = "mark_question"
    /\ marks = <<>>
    /\ calls = <<>>
    /\ written = <<>>
    /\ all_marks = <<>>
    /\ summary = [written |-> FALSE, rows |-> <<>>]
    /\ error = "none"

\* python3 re-mark-Wiseflow output.csv file1.htm
Init ==
    /\ filenames = Sources(1)
    /\ output_filename \in {"None", "output.csv"}
    /\ pc = "process_student"
    /\ InitCommon

\* python3 re-mark-Wiseflow output.csv file1.htm file2.html ...
InitBatch ==
    /\ filenames \in {Sources(n) : n \in 0..MaxStudents}
    /\ output_filename = "output.csv"
    /\ pc = "process_student"
    /\ InitCommon

\* marks_as_table called from another module
InitTable ==
    /\ filenames = <<>>
    /\ output_filename = "None"
    /\ pc = "module"
    /\ InitCommon

\* the slip: the exception caught around process_student, the loop going on
raise_caught(e) ==
    /\ error' = e
    /\ pc' = "process_student"

raise(e) ==
    /\ error' = e
    /\ pc' = "raised"

\* process_student: the next source of the list comprehension is read
process_student(q, n, classes) ==
    /\ pc = "process_student"
    /\ i <= Len(filenames)
    /\ SomeSoup(soup', q, n, classes)
    /\ pc' = "find_name"
    /\ UNCHANGED <<filenames, output_filename, i, name, qs, mark_scheme, marks,
                   calls, written, all_marks, summary, error>>

\* mark_student: name=find_name(soup)
ms_find_name ==
    /\ pc = "find_name"
    /\ LET res == find_name(soup) IN
       IF res.raise # "none"
       THEN raise(res.raise) /\ UNCHANGED name
       ELSE name' = res.ret /\ pc' = "list_questions" /\ UNCHANGED error
    /\ UNCHANGED <<filenames, output_filename, i, soup, qs, mark_scheme, marks,
                   calls, written, all_marks, summary>>

\* mark_student: qs=list_questions(soup)
ms_list_questions ==
    /\ pc = "list_questions"
    /\ LET res == list_questions(soup) IN
       IF res.raise # "none"
       THEN raise(res.raise) /\ UNCHANGED qs
       ELSE qs' = res.ret /\ pc' = "marks_as_table" /\ UNCHANGED error
    /\ UNCHANGED <<filenames, output_filename, i, soup, name, mark_scheme, marks,
                   calls, written, all_marks, summary>>

\* the slip: the table built back to front
marks_as_table_row_reversed(here) ==
    /\ pc = here
    /\ Len(marks) < Len(qs)
    /\ LET r == qs[Len(marks) + 1] IN
       /\ calls' = Append(calls, r)
       /\ marks' = <<table_row(r, call_scheme(mark_scheme, r))>> \o marks
    /\ UNCHANGED <<filenames, output_filename, i, pc, soup, name, qs, mark_scheme,
                   written, all_marks, summary, error>>

\* marks_as_table: one element of the list comprehension
marks_as_table_row(here) ==
    /\ pc = here
    /\ Len(marks) < Len(qs)
    /\ LET r == qs[Len(marks) + 1] IN
       /\ calls' = Append(calls, r)
       /\ marks' = Append(marks, table_row(r, call_scheme(mark_scheme, r)))
    /\ UNCHANGED <<filenames, output_filename, i, pc, soup, name, qs, mark_scheme,
                   written, all_marks, summary, error>>

\* marks_as_table: the list is complete and returned
marks_as_table_return(here, next) ==
    /\ pc = here
    /\ Len(marks) = Len(qs)
    /\ pc' = next
    /\ UNCHANGED <<filenames, output_filename, i, soup, name, qs, mark_scheme,
                   marks, calls, written, all_marks, summary, error>>

\* mark_student: export_student_to_CSV(name, marks)
export_student_to_CSV ==
    /\ pc = "export_student_to_CSV"
    /\ written' = Append(written, [filename |-> csv_filename(name), rows |-> marks])
    /\ pc' = "total_mark"
    /\ UNCHANGED <<filenames, output_filename, i, soup, name, qs, mark_scheme,
                   marks, calls, all_marks, summary, error>>

\* the slip: the student's row put in front of all_marks
ms_total_mark_front ==
    /\ pc = "total_mark"
    /\ LET res == total_mark(marks) IN
       IF res.raise # "none"
       THEN /\ raise(res.raise)
            /\ UNCHANGED <<i, all_marks, locals>>
       ELSE /\ all_marks' = <<(<<name>> \o res.ret)>> \o all_marks
            /\ i' = i + 1
            /\ pc' = "process_student"
            /\ soup' = NoSoup
            /\ name' = <<>>
            /\ qs' = <<>>
            /\ marks' = <<>>
            /\ calls' = <<>>
            /\ UNCHANGED <<mark_scheme, error>>
    /\ UNCHANGED <<filenames, output_filename, written, summary>>

\* mark_student: return [name] + total_mark(marks), collected by process_students
ms_total_mark ==
    /\ pc = "total_mark"
    /\ LET res == total_mark(marks) IN
       IF res.raise # "none"
       THEN /\ raise(res.raise)
            /\ UNCHANGED <<i, all_marks, locals>>
       ELSE /\ all_marks' = Append(all_marks, <<name>> \o res.ret)
            /\ i' = i + 1
            /\ pc' = "process_student"
            /\ soup' = NoSoup
            /\ name' = <<>>
            /\ qs' = <<>>
            /\ marks' = <<>>
            /\ calls' = <<>>
            /\ UNCHANGED <<mark_scheme, error>>
    /\ UNCHANGED <<filenames, output_filename, written, summary>>

\* process_students: after the list comprehension
write_summary ==
    /\ pc = "process_student"
    /\ i > Len(filenames)
    /\ summary' = IF output_filename # "None"
                  THEN [written |-> TRUE, rows |-> all_marks]
                  ELSE summary
    /\ pc' = "done"
    /\ UNCHANGED <<filenames, output_filename, i, locals, written, all_marks, error>>

\* marks_as_table(list_questions(soup), mark_scheme) called from another module
module_call(q, n, classes) ==
    /\ pc = "module"
    /\ SomeSoup(soup', q, n, classes)
    /\ list_questions(soup').raise = "none"
    /\ qs' = list_questions(soup').ret
    /\ mark_scheme' \in Schemes
    /\ pc' = "module_table"
    /\ UNCHANGED <<filenames, output_filename, i, name, marks, calls, written,
                   all_marks, summary, error>>

mark_student ==
    \/ ms_find_name
    \/ ms_list_questions
    \/ marks_as_table_row("marks_as_table")
    \/ marks_as_table_return("marks_as_table", "export_student_to_CSV")
    \/ export_student_to_CSV
    \/ ms_total_mark

Next ==
    \/ process_student(MaxQuestions, MaxNodes, OptionClasses)
    \/ mark_student
    \/ write_summary

NextBatch ==
    \/ process_student(BatchQuestions, BatchNodes, SingleClasses)
    \/ mark_student
    \/ write_summary

NextTable ==
    \/ module_call(MaxQuestions, MaxNodes, OptionClasses)
    \/ marks_as_table_row("module_table")
    \/ marks_as_table_return("module_table", "module_done")

Spec == Init /\ [][Next]_vars
SpecBatch == InitBatch /\ [][NextBatch]_vars
SpecTable == InitTable /\ [][NextTable]_vars

---------------------------------------------------------------------------
(* Properties *)

\* number of option nodes of the element ul that carry the class label
Carrying(ul, label) == Cardinality({o \in 1..Len(ul) : label \in ul[o]})

\* the counts of the q-th question element of the current document
Tally(q) ==
    LET ul == soup.questions[q] IN
    [total_options |-> Len(ul),
     selected_correct |-> Carrying(ul, "lrn_correct"),
     selected_incorrect |-> Carrying(ul, "lrn_incorrect"),
     unselected_correct |-> Carrying(ul, "lrn_valid")]

\* the sum of f[1] .. f[n]
RECURSIVE Total(_, _)
Total(f, n) == IF n = 0 THEN 0 ELSE Total(f, n - 1) + f[n]

\* mark_student has called total_mark and it raised
TotalsRaised == pc = "raised" /\ Len(written) > Len(all_marks)

\* C1: totals over rows whose total_correct sum to 0 end in the typed
\* failure DegenerateExam, never in a raw divide-by-zero fault.
C1_DegenerateExam ==
    (TotalsRaised /\ Total([q \in 1..Len(marks) |-> marks[q][2]], Len(marks)) = 0)
        => error = "DegenerateExam"

\* C2: a document is processed all-or-nothing: when its processing has
\* failed, no per-student table of it has been handed to the writer.
C2_AllOrNothing ==
    pc = "raised" => Len(written) = Len(all_marks)

C4_DefaultScheme ==
    mark_scheme = "mark_question" =>
    \A q \in 1..Len(marks) :
        LET t == Tally(q)
            total_correct == t.selected_correct + t.unselected_correct
            mark == marks[q][5]
        IN
        /\ (total_correct = 1 /\ t.selected_correct = 1 /\ t.selected_incorrect = 0)
              => mark = 4
        /\ (total_correct = 1 /\ ~(t.selected_correct = 1 /\ t.selected_incorrect = 0))
              => mark = 0
        /\ total_correct # 1
              => mark + t.selected_incorrect = 4 * t.selected_correct

\* a single-answer question lost to a wrong selection beside the right one,
\* and a question without correct answers marked below zero
C4_Witness ==
    /\ mark_scheme = "mark_question"
    /\ Len(marks) = 2
    /\ marks[1][2] = 1 /\ marks[1][3] = 1 /\ marks[1][4] = 1 /\ marks[1][5] = 0
    /\ marks[2][2] = 0 /\ marks[2][5] < 0

\* C5: max_mark is the sum of total_correct and actual_mark the sum of mark
\* over the student's rows, and percentage is actual_mark / max_mark * 100;
\* marks 1 and 1.75 against total_correct 1 and 3 give 4, 2.75 and 68.75.
\* (Marks in quarters; the percentage p/d as p * max_mark * 4 = d * quarters * 100.)
C5_Totals ==
    /\ \A s \in 1..Len(all_marks) :
          LET rows == written[s].rows
              t == all_marks[s]
              max_mark == Total([q \in 1..Len(rows) |-> rows[q][2]], Len(rows))
              quarters == Total([q \in 1..Len(rows) |-> rows[q][5]], Len(rows))
          IN
          /\ max_mark > 0
          /\ t[2] = max_mark
          /\ t[3] = quarters
          /\ t[4][2] > 0
          /\ t[4][1] * max_mark * 4 = t[4][2] * quarters * 100
    /\ total_mark(<< <<4, 1, 1, 0, 4>>, <<4, 3, 2, 1, 7>> >>).ret = <<4, 11, <<275, 4>>>>

\* the totals 4, 2.75 and 68.75 have been computed for a student
C5_Witness ==
    /\ Len(all_marks) = 1
    /\ Len(written[1].rows) = 2
    /\ written[1].rows[1][5] = 4 /\ written[1].rows[2][5] = 7
    /\ all_marks[1][2] = 4 /\ all_marks[1][3] = 11 /\ all_marks[1][4] = <<275, 4>>

\* C6: for every scheme, the table marks_as_table returns has one row per
\* question element, row q being (total_options, total_correct,
\* selected_correct, selected_incorrect, scheme(tally q)) of the q-th element
\* in document order, and the scheme is called once per tally, in order.
C6_RowsInOrder ==
    /\ Len(calls) = Len(marks)
    /\ \A q \in 1..Len(marks) :
          LET t == Tally(q) IN
          /\ calls[q] = qs[q]
          /\ marks[q][1] = t.total_options
          /\ marks[q][2] = t.selected_correct + t.unselected_correct
          /\ marks[q][3] = t.selected_correct
          /\ marks[q][4] = t.selected_incorrect
          /\ marks[q][5] = call_scheme(mark_scheme, calls[q])
    /\ pc = "module_done" => Len(marks) = Len(soup.questions)

\* a table of two different rows has been returned under the caller's scheme
C6_Witness ==
    /\ pc = "module_done"
    /\ mark_scheme = "custom"
    /\ Len(marks) = 2
    /\ marks[1][1] # marks[2][1]

\* C7: the sources are processed one after another in the given order: while
\* the i-th source is being processed exactly i - 1 students are complete
\* (exported and collected), the i-th export is that of the student being
\* processed, and after the last source the summary holds one row per
\* source, row s being the name and totals of the s-th student exported.
C7_InOrder ==
    error = "none" =>
    /\ Len(all_marks) = i - 1
    /\ i <= Len(filenames) + 1
    /\ Len(written) = IF pc = "total_mark" THEN i ELSE i - 1
    /\ pc = "total_mark" =>
          written[i] = [filename |-> csv_filename(name), rows |-> marks]
    /\ \A s \in 1..Len(all_marks) :
          LET rows == written[s].rows
              t == all_marks[s]
          IN
          /\ csv_filename(t[1]) = written[s].filename
          /\ t[2] = Total([q \in 1..Len(rows) |-> rows[q][2]], Len(rows))
          /\ t[3] = Total([q \in 1..Len(rows) |-> rows[q][5]], Len(rows))
    /\ pc = "done" =>
          /\ Len(all_marks) = Len(filenames)
          /\ summary = [written |-> TRUE, rows |-> all_marks]
    /\ pc # "done" => ~summary.written

\* the summary of two students with different names and totals is written
C7_Witness ==
    /\ pc = "done"
    /\ Len(filenames) = 2
    /\ summary.written
    /\ Len(summary.rows) = 2
    /\ summary.rows[1][1] # summary.rows[2][1]
    /\ summary.rows[1][3] # summary.rows[2][3]

\* C8: once processing a source has failed the program is at the raise, the
\* summary is not written and only the complete students before the failing
\* source are collected; and no step follows a failure.
C8_FailFast ==
    /\ [](error # "none" =>
            /\ pc = "raised"
            /\ ~summary.written
            /\ i <= Len(filenames)
            /\ Len(all_marks) = i - 1)
    /\ [][error = "none"]_vars

\* the first of two sources has failed
C8_Witness ==
    /\ pc = "raised"
    /\ i = 1
    /\ Len(filenames) = 2

\* extraction of the current document has returned or raised
Extracted ==
    \/ pc \in {"marks_as_table", "export_student_to_CSV", "total_mark"}
    \/ pc = "raised" /\ ~TotalsRaised

\* C9: extraction fails with IdentifierNotFound exactly when no node matches
\* the participant predicate, otherwise with NoQuestionsFound exactly when
\* there are no question elements, and otherwise returns the name and a
\* non-empty list of tallies.
C9_ExtractionErrors ==
    Extracted =>
        IF ~soup.participant
        THEN pc = "raised" /\ error = "student name not found" /\ qs = <<>>
        ELSE IF soup.questions = <<>>
        THEN pc = "raised" /\ error = "No questions found"
        ELSE pc # "raised" /\ qs # <<>> /\ Len(qs) = Len(soup.questions)

\* C10: under the default scheme no mark exceeds its row's total_correct
\* (so it is at most 0 when total_correct is 0), hence actual_mark <=
\* max_mark and percentage <= 100 for every student's totals.
C10_MarkAtMostMax ==
    /\ \A q \in 1..Len(marks) :
          /\ marks[q][5] <= 4 * marks[q][2]
          /\ marks[q][2] = 0 => marks[q][5] <= 0
    /\ \A s \in 1..Len(all_marks) :
          LET t == all_marks[s] IN
          /\ t[2] > 0
          /\ t[3] <= 4 * t[2]
          /\ t[4][1] <= 100 * t[4][2]

\* a student's totals with max_mark > 0 and a negative mark and percentage
C10_Witness ==
    /\ Len(all_marks) = 1
    /\ all_marks[1][2] > 0
    /\ all_marks[1][3] < 0
    /\ all_marks[1][4][1] < 0

===========================================================================
